---- MODULE Spec2Model ----
(***************************************************************************)
(* A model of yatgl's telegram client (src/yatgl/client.py): the singleton  *)
(* Client with its configuration, the deque of TelegramRequests, the       *)
(* _process_queue task that sends them, the _mass_queue campaign tasks     *)
(* and the start / stop / mass_telegram calls that create and cancel them. *)
(*                                                                         *)
(* The program is asyncio code: a coroutine runs without interruption from *)
(* one await that suspends to the next, so each action below is one such   *)
(* run.  A task whose cancel() was called receives CancelledError at the   *)
(* await it is suspended in and runs no further statement of the program,  *)
(* so cancel() is modelled as ending the task at once.                     *)
(***************************************************************************)
EXTENDS Integers, Sequences, FiniteSets, TLC

VARIABLES
    client_key,      \* Client.client_key: None or the key
    user_agent,      \* Client.user_agent: None or the agent
    delay,           \* Client.delay
    sent,            \* Client.sent: set of canonical recipients
    queue,           \* Client.queue: the deque, index 1 is its left end
    tg_task,         \* Client._tg_task: 0 (None) or an index into loops
    queueing_tasks,  \* Client._queueing_tasks: indices into camps
    session,         \* Client._session: "none", "open" or "closed"
    loops,           \* every _process_queue task created so far
    camps,           \* every _mass_queue task created so far
    pendingStarts,   \* start() coroutines gather() has scheduled, not yet run
    stopping,        \* stop() calls suspended in "await self._session.close()"
    call,            \* the API call made by the latest step and its outcome
    enqLog,          \* history: recipients in the order queue_tg was called
    startLog,        \* history: recipients in the order _send_tg was entered
    errored,         \* history: recipients whose send logged an error
    endLog,          \* history: recipients in the order their send ended
    paced            \* history: sleep(self.delay) was completed since then

vars == <<client_key, user_agent, delay, sent, queue, tg_task, queueing_tasks,
          session, loops, camps, pendingStarts, stopping, call, enqLog,
          startLog, errored, endLog, paced>>

(***************************************************************************)
(* Bounds of the model.                                                    *)
(***************************************************************************)
MaxEnq == 3        \* queue_tg calls in one behaviour
MaxLoops == 3      \* _process_queue tasks created in one behaviour
MaxCamps == 2      \* _mass_queue tasks created in one behaviour
Max429 == 1        \* 429 responses to one request
MaxStopping == 1   \* stop() calls suspended in session.close() at a time
MaxPolls == 2      \* passes of the polling loop of one campaign
MaxMembers == 2    \* members in one response of the directory

(***************************************************************************)
(* Program constants.                                                      *)
(***************************************************************************)
DefaultDelay == 185
DelayFloor == 30
LowWater == 7
PollInterval == 60

None == "None"

(***************************************************************************)
(* Recipient names are strings, modelled as sequences of characters.       *)
(***************************************************************************)
NewProvi == <<"N", " ", "P">>
new_provi == <<"n", "_", "p">>
Testlandia == <<"t">>
Nations == {NewProvi, new_provi, Testlandia}

\* str.lower() on one character
Lower(ch) == CASE ch = "N" -> "n"
               [] ch = "P" -> "p"
               [] OTHER -> ch

\* telegram.recipient.lower().replace(' ', '_')
Canon(name) ==
    [i \in DOMAIN name |-> IF Lower(name[i]) = " " THEN "_" ELSE Lower(name[i])]

(***************************************************************************)
(* Values.                                                                 *)
(***************************************************************************)
Template == [secret_key |-> "secret", tgid |-> "tgid"]

\* TelegramRequest(template, recipient)
TelegramRequest(template, recipient) ==
    [template |-> template, recipient |-> recipient]

\* An optional value is a sequence of length 0 or 1.
Opt(S) == {<<>>} \cup {<<x>> : x \in S}

\* What the latest step called, for the steps that are calls of the API.
NoCall == [op |-> "none", arg |-> <<>>, err |-> "none"]
Called(op, arg, err) == [op |-> op, arg |-> arg, err |-> err]

\* A _process_queue task.  pc is the await it is suspended in:
\*   "idle"   created, or in sleep(0): it next tests self.queue
\*   "post"   in session.post of _send_tg (and the reading of the response)
\*   "retry"  in sleep(retry_after) of _send_tg
\*   "delay"  in sleep(self.delay)
\*   "cancelled", "failed": ended by cancel() or by an exception
\* cur is the request _send_tg holds and wait the duration of the sleep the
\* task is in.  tries, n429 and last are history: the posts issued for cur,
\* the 429 responses to them, and what the latest response to the task was
\* ("none", "429", "queued" or "error"); quota is the RateLimit-Remaining of
\* that response.
NewLoop == [pc |-> "idle", cur |-> <<>>, tries |-> 0, n429 |-> 0, wait |-> 0,
            last |-> "none", quota |-> <<>>]
EndedLoop(how) == [NewLoop EXCEPT !.pc = how]
Live(task) == task.pc \notin {"cancelled", "failed", "done"}

\* Task.cancel(), of a _process_queue task and of a _mass_queue task
CancelLoop(task) == IF Live(task) THEN EndedLoop("cancelled") ELSE task
EndCamp(task, how) == [task EXCEPT !.pc = how, !.wait = 0, !.hdr = <<>>]
Cancel(task) == IF Live(task) THEN EndCamp(task, "cancelled") ELSE task

(***************************************************************************)
(* Init: the class attributes of Client (lines 101-108).                   *)
(***************************************************************************)
Init ==
    /\ client_key = None
    /\ user_agent = None
    /\ delay = DefaultDelay
    /\ sent = {}
    /\ queue = <<>>
    /\ tg_task = 0
    /\ queueing_tasks = <<>>
    /\ session = "none"
    /\ loops = <<>>
    /\ camps = <<>>
    /\ pendingStarts = 0
    /\ stopping = 0
    /\ call = NoCall
    /\ enqLog = <<>>
    /\ startLog = <<>>
    /\ errored = {}
    /\ endLog = <<>>
    /\ paced = TRUE

(***************************************************************************)
(* Client(kwargs): _ClientMeta.__call__ runs __init__ on the singleton.    *)
(* The assignments are made in the order of the code, so those before a    *)
(* raise stay made.                                                        *)
(***************************************************************************)
Kwargs == [client_key : Opt({"key"}), user_agent : Opt({"agent"}),
           delay : Opt({10, DelayFloor})]

\* a floor that is not enforced
DelayAnyAccepted(d) == TRUE

DelayAccepted(d) == ~(d < DelayFloor)

Client_init(kwargs) ==
    /\ client_key' = IF kwargs.client_key # <<>> THEN kwargs.client_key[1]
                     ELSE client_key
    /\ user_agent' = IF kwargs.user_agent # <<>> THEN kwargs.user_agent[1]
                     ELSE user_agent
    /\ IF kwargs.delay # <<>>
       THEN IF DelayAccepted(kwargs.delay[1])
            THEN /\ delay' = kwargs.delay[1]
                 /\ call' = Called("Client", kwargs.delay, "none")
            ELSE /\ delay' = delay
                 /\ call' = Called("Client", kwargs.delay, "ValueError")
       ELSE /\ delay' = delay
            /\ call' = Called("Client", <<>>, "none")
    /\ UNCHANGED <<sent, queue, tg_task, queueing_tasks, session, loops, camps,
                   pendingStarts, stopping, enqLog, startLog, errored,
                   endLog, paced>>

(***************************************************************************)
(* queue_tg: deque.appendleft                                              *)
(***************************************************************************)
AppendLeft(q, x) == <<x>> \o q

Enqueue(q, log, names) ==
    \* the deque and the history after queue_tg for each of names, in order
    LET F[i \in 0..Len(names)] ==
            IF i = 0 THEN <<q, log>>
            ELSE <<AppendLeft(F[i-1][1], TelegramRequest(Template, names[i])),
                   Append(F[i-1][2], names[i])>>
    IN  F[Len(names)]

queue_tg(recipient) ==
    /\ Len(enqLog) < MaxEnq
    /\ queue' = Enqueue(queue, enqLog, <<recipient>>)[1]
    /\ enqLog' = Enqueue(queue, enqLog, <<recipient>>)[2]
    /\ call' = Called("queue_tg", <<>>, "none")
    /\ UNCHANGED <<client_key, user_agent, delay, sent, tg_task, queueing_tasks,
                   session, loops, camps, pendingStarts, stopping, startLog,
                   errored,
                   endLog, paced>>

(***************************************************************************)
(* start(): the body up to "await self._tg_task".  RunStart is the body;   *)
(* start is a direct call, gathered_start the one mass_telegram's gather   *)
(* scheduled as a task of its own.                                         *)
(***************************************************************************)
NeedSession == session \in {"none", "closed"}

StartGuard == tg_task = 0

RunStart(op) ==
    IF client_key = None \/ user_agent = None
    THEN /\ call' = Called(op, <<>>, "AttributeError")
         /\ UNCHANGED <<tg_task, loops, session>>
    ELSE /\ call' = Called(op, <<>>, "none")
         /\ IF StartGuard
            THEN /\ Len(loops) < MaxLoops
                 /\ loops' = Append(loops, NewLoop)
                 /\ tg_task' = Len(loops) + 1
                 /\ session' = IF NeedSession THEN "open" ELSE session
            ELSE UNCHANGED <<tg_task, loops, session>>

start ==
    /\ RunStart("start")
    /\ UNCHANGED <<client_key, user_agent, delay, sent, queue, queueing_tasks,
                   camps, pendingStarts, stopping, enqLog, startLog, errored,
                   endLog, paced>>

gathered_start ==
    /\ pendingStarts > 0
    /\ pendingStarts' = pendingStarts - 1
    /\ RunStart("mass_telegram")
    /\ UNCHANGED <<client_key, user_agent, delay, sent, queue, queueing_tasks,
                   camps, stopping, enqLog, startLog, errored,
                   endLog, paced>>

(***************************************************************************)
(* stop().  session.close() closes the connector at once; the await of it  *)
(* may suspend the caller (stopping) before the handles are reset, or not. *)
(* Closing aborts the requests in flight on the session, so a task that    *)
(* was not cancelled and is in a post ends with the transport's exception. *)
(***************************************************************************)
Tracked == {queueing_tasks[i] : i \in DOMAIN queueing_tasks}

Abort(task) ==
    IF task.pc = "fetch" THEN EndCamp(task, "failed") ELSE task

StopCancels(i) == i \in Tracked

StopLoops ==
    [t \in DOMAIN loops |->
        IF t = tg_task THEN CancelLoop(loops[t])
        ELSE IF session = "open" /\ loops[t].pc = "post" THEN EndedLoop("failed")
        ELSE loops[t]]

StopCamps ==
    [c \in DOMAIN camps |->
        IF StopCancels(c) THEN Cancel(camps[c])
        ELSE IF session = "open" THEN Abort(camps[c])
        ELSE camps[c]]

\* a stop() that empties the queue
StopClearsQueue ==
    /\ queue' = <<>>
    /\ UNCHANGED <<client_key, user_agent, delay, sent>>

\* what stop() does not touch
StopKeeps == UNCHANGED <<client_key, user_agent, delay, sent, queue>>

stop ==
    /\ StopKeeps
    /\ UNCHANGED <<pendingStarts, enqLog, startLog, errored,
                   endLog, paced>>
    /\ IF tg_task # 0
       THEN /\ loops' = StopLoops
            /\ camps' = StopCamps
            /\ session' = "closed"
            /\ \/ /\ tg_task' = 0
                  /\ queueing_tasks' = <<>>
                  /\ call' = Called("stop", <<>>, "none")
                  /\ UNCHANGED stopping
               \/ /\ session = "open"
                  /\ stopping < MaxStopping
                  /\ stopping' = stopping + 1
                  /\ call' = Called("stop", <<>>, "suspended")
                  /\ UNCHANGED <<tg_task, queueing_tasks>>
       ELSE /\ call' = Called("stop", <<>>, "none")
            /\ UNCHANGED <<tg_task, queueing_tasks, session, loops, camps,
                           stopping>>

\* the rest of a suspended stop(), line 166
stop_resume ==
    /\ stopping > 0
    /\ stopping' = stopping - 1
    /\ tg_task' = 0
    /\ queueing_tasks' = <<>>
    /\ call' = Called("stop", <<>>, "none")
    /\ UNCHANGED <<client_key, user_agent, delay, sent, queue, session, loops,
                   camps, pendingStarts, enqLog, startLog, errored,
                   endLog, paced>>

(***************************************************************************)
(* _process_queue and _send_tg: the steps of a _process_queue task.        *)
(***************************************************************************)
\* a deque popped at the end it is appended to: popleft()
PopLeft(q) == [item |-> q[1], rest |-> Tail(q)]

\* deque.pop(): the right end
Pop(q) == [item |-> q[Len(q)], rest |-> SubSeq(q, 1, Len(q) - 1)]

\* self._session.post(...): issuing a request needs an open session, without
\* one the call raises and the task ends with the exception
Post(task) ==
    IF session = "open"
    THEN [task EXCEPT !.pc = "post", !.tries = @ + 1, !.wait = 0]
    ELSE EndedLoop("failed")

\* lines 327-330: the test of self.queue, the pop and the entry of _send_tg
\* up to its post; with an empty queue, sleep(0)
process_queue(t) ==
    /\ loops[t].pc = "idle"
    /\ IF queue # <<>>
       THEN /\ queue' = Pop(queue).rest
            /\ startLog' = Append(startLog, Pop(queue).item.recipient)
            /\ loops' = [loops EXCEPT
                           ![t] = Post([NewLoop EXCEPT !.cur = <<Pop(queue).item>>])]
       ELSE UNCHANGED <<queue, startLog, loops>>
    /\ call' = NoCall
    /\ UNCHANGED <<client_key, user_agent, delay, sent, tg_task, queueing_tasks,
                   session, camps, pendingStarts, stopping, enqLog, errored,
                   endLog, paced>>

RetryAfters == {2, 5}

\* the RateLimit-Remaining values of the responses to a send
SendRemainings == {5, 8}

\* what the send endpoint may answer
SendResponses ==
    [status : {429}, retry_after : RetryAfters, queued : {FALSE}, remaining : {0}]
    \cup [status : {200}, retry_after : {0}, queued : BOOLEAN,
          remaining : SendRemainings]

\* a scheduler that ends with the request
AfterSendEnds == EndedLoop("failed")

\* the break of lines 354 and 358, then sleep(self.delay) of line 330
AfterSend == [NewLoop EXCEPT !.pc = "delay", !.wait = delay]

\* a 429 taken for a final answer
On429GivesUp(task, resp) == AfterSend

\* lines 346-350: sleep(retry_after), the request stays the current one
On429(task, resp) ==
    [task EXCEPT !.pc = "retry", !.wait = resp.retry_after]

\* the history of a response
Got(task, what) ==
    [task EXCEPT !.last = what,
                 !.n429 = IF what = "429" THEN @ + 1 ELSE @]

\* the history of the quota a response reported in RateLimit-Remaining
Heard(task, resp) == [task EXCEPT !.quota = <<resp.remaining>>]

\* line 352: self.sent.add(recipient), the canonical recipient of line 335
Ledger(tg) == sent \cup {Canon(tg.recipient)}

\* lines 345-358: the response to the post of _send_tg
send_tg_response(t, resp) ==
    /\ loops[t].pc = "post"
    /\ IF resp.status = 429
       THEN /\ loops[t].n429 < Max429
            /\ loops' = [loops EXCEPT ![t] = Heard(Got(On429(@, resp), "429"), resp)]
            /\ UNCHANGED <<sent, errored, endLog, paced>>
       ELSE /\ endLog' = Append(endLog, loops[t].cur[1].recipient)
            /\ paced' = FALSE
            /\ IF resp.queued
               THEN /\ sent' = Ledger(loops[t].cur[1])
                    /\ loops' = [loops EXCEPT
                                   ![t] = Heard(Got(AfterSend, "queued"), resp)]
                    /\ UNCHANGED errored
               ELSE /\ errored' = errored \cup {loops[t].cur[1].recipient}
                    /\ loops' = [loops EXCEPT
                                   ![t] = Heard(Got(AfterSend, "error"), resp)]
                    /\ UNCHANGED sent
    /\ call' = NoCall
    /\ UNCHANGED <<client_key, user_agent, delay, queue, tg_task, queueing_tasks,
                   session, camps, pendingStarts, stopping, enqLog, startLog>>

\* the end of sleep(retry_after): the while loop of line 344 posts again
Retry(task) == Post(task)

send_tg_retry(t) ==
    /\ loops[t].pc = "retry"
    /\ loops' = [loops EXCEPT ![t] = Retry(@)]
    /\ call' = NoCall
    /\ UNCHANGED <<client_key, user_agent, delay, sent, queue, tg_task,
                   queueing_tasks, session, camps, pendingStarts, stopping,
                   enqLog, startLog, errored,
                   endLog, paced>>

\* a sleep(self.delay) that never ends
process_queue_oversleeps(t) ==
    /\ loops[t].pc = "delay"
    /\ UNCHANGED vars

\* the end of sleep(self.delay), then sleep(0) of line 332
process_queue_wake(t) ==
    /\ loops[t].pc = "delay"
    /\ loops' = [loops EXCEPT ![t] = NewLoop]
    /\ paced' = TRUE
    /\ call' = NoCall
    /\ UNCHANGED <<client_key, user_agent, delay, sent, queue, tg_task,
                   queueing_tasks, session, camps, pendingStarts, stopping,
                   enqLog, startLog, errored, endLog>>

(***************************************************************************)
(* NationGroup and the _mass_queue tasks.                                  *)
(***************************************************************************)
\* NationGroup.value, lines 60-67
GroupValue(group) ==
    CASE group = "NEW_WA_MEMBERS" -> 0
      [] group = "ALL_WA_MEMBERS" -> 1
      [] group = "NEW_FOUNDS" -> 2
      [] group = "ALL_WA_DELEGATES" -> 3
      [] group = "NEW_REGION_MEMBERS" -> 4
      [] group = "ALL_REGION_MEMBERS" -> 5
      [] group = "DELEGATES_APPROVING" -> 7
      [] group = "DELEGATES_NOT_APPROVING" -> 9

\* line 198: group.value % 2 == 1 takes the one-shot branch
IsStatic(group) == GroupValue(group) % 2 = 1

\* The regions argument: None, one str, or a list of str.
NoRegions == [type |-> "none", items |-> <<>>]
OneRegionStr == [type |-> "str", items |-> "region1"]
RegionList(items) == [type |-> "list", items |-> items]

\* A _mass_queue task.  pc is the await it is suspended in:
\*   "new"    created by create_task, not yet run
\*   "fetch"  in session.post of _api_request_wait (and the reading of it)
\*   "retry"  in sleep(retry_after) of _api_request_wait
\*   "slow"   in the sleep of line 322
\*   "sleep"  in sleep(60) of line 253
\*   "done", "failed", "cancelled": returned, raised, cancelled
\* phase says which fetch it is in, ri the index of the region being
\* fetched, existing is the set of line 225.  base, atStart, fetched, queued
\* and polls are history: existing as it was when the while loop was
\* entered, the members the directory reported the first time the task
\* fetched each of its lists, the regions (by index) it has fetched, the
\* recipients the task enqueued in order, and the passes of the loop made.
\* council is the chamber _get_proposal_delegates_approving is asking and
\* approving what it returned (none yet, or one list); answers is history:
\* what the chambers asked so far answered.
NewCamp(group, regions, proposal) ==
    [group |-> group, regions |-> regions, proposal |-> proposal,
     pc |-> "new", phase |-> "none", ri |-> 0, existing |-> {}, base |-> {},
     atStart |-> {}, fetched |-> {}, queued |-> <<>>, polls |-> 0,
     wait |-> 0, hdr |-> <<>>, council |-> 0, approving |-> <<>>,
     answers |-> <<>>]

\* self._session.post(...) of _api_request_wait, line 314
ApiPost(task) ==
    IF session = "open"
    THEN [task EXCEPT !.pc = "fetch", !.wait = 0, !.hdr = <<>>]
    ELSE EndCamp(task, "failed")

(***************************************************************************)
(* mass_telegram, lines 179-186: the session, the task, the list, and the  *)
(* gather that schedules start().                                          *)
(***************************************************************************)
Track(tasks, i) == Append(tasks, i)

mass_telegram(group, regions, proposal) ==
    /\ Len(camps) < MaxCamps
    /\ session' = IF NeedSession THEN "open" ELSE session
    /\ camps' = Append(camps, NewCamp(group, regions, proposal))
    /\ queueing_tasks' = Track(queueing_tasks, Len(camps) + 1)
    /\ pendingStarts' = pendingStarts + 1
    /\ call' = Called("mass_telegram", <<>>, "none")
    /\ UNCHANGED <<client_key, user_agent, delay, sent, queue, tg_task, loops,
                   stopping, enqLog, startLog, errored,
                   endLog, paced>>

(***************************************************************************)
(* _mass_queue, first run: the checks of lines 190-195 and the code up to   *)
(* the first fetch of the group.                                           *)
(***************************************************************************)
\* lines 194-195: a str becomes the list of that one str
Regions(task) ==
    IF task.regions.type = "str" THEN <<task.regions.items>>
    ELSE task.regions.items

\* a validation that lets everything pass
NeverInvalid(task) == FALSE

\* lines 190-193: the two raises of AttributeError
Invalid(task) ==
    \/ /\ task.group \in {"DELEGATES_APPROVING", "DELEGATES_NOT_APPROVING"}
       /\ task.proposal = <<>>
    \/ /\ task.group \in {"ALL_REGION_MEMBERS", "NEW_REGION_MEMBERS"}
       /\ \/ task.regions.type = "none"
          \/ task.regions.type = "list" /\ task.regions.items = <<>>

FirstFetch(task) ==
    IF task.group \in {"DELEGATES_APPROVING", "DELEGATES_NOT_APPROVING"}
    THEN ApiPost([task EXCEPT !.phase = "approving", !.council = 1])
    ELSE IF IsStatic(task.group)
    THEN ApiPost([task EXCEPT !.phase = "static", !.ri = 1])
    ELSE IF task.group \in {"NEW_REGION_MEMBERS", "NEW_WA_MEMBERS"}
    THEN ApiPost([task EXCEPT !.phase = "baseline", !.ri = 1])
    ELSE ApiPost([task EXCEPT !.phase = "poll", !.ri = 1])

mass_queue_begin(c) ==
    /\ camps[c].pc = "new"
    /\ camps' = [camps EXCEPT ![c] =
         IF Invalid(@) THEN EndCamp(@, "failed") ELSE FirstFetch(@)]
    /\ call' = NoCall
    /\ UNCHANGED <<client_key, user_agent, delay, sent, queue, tg_task,
                   queueing_tasks, session, loops, pendingStarts, stopping,
                   enqLog, startLog, errored,
                   endLog, paced>>

(***************************************************************************)
(* _api_request_wait, lines 313-324.                                       *)
(***************************************************************************)
Remainings == {1, 5, 8}
Resets == {30}

\* the headers of a response of the directory
ApiHeaders ==
    [status : {429}, retry_after : RetryAfters, remaining : {0}, reset : {0}]
    \cup [status : {200}, retry_after : {0}, remaining : Remainings,
          reset : Resets]

\* line 320: "remaining := int(...) <= 7" binds remaining to the comparison,
\* a bool, which divides as 1 or 0
Remaining(head) == IF head.remaining <= LowWater THEN 1 ELSE 0

\* line 322: the duration of the sleep, int(RateLimit-Reset) / remaining
Slowdown(head) == head.reset \div Remaining(head)

\* The members a fetch returns: the split of the response's text.
SetOf(seq) == {seq[i] : i \in DOMAIN seq}

\* a membership test that never finds the nation
KnownNever(existing, nation) == FALSE

\* lines 237, 243, 249: "nation not in existing"
Known(existing, nation) == nation \in existing

\* the for loops of lines 236-251: the members enqueued, in order
Fresh(existing, members) ==
    LET F[i \in 0..Len(members)] ==
            IF i = 0 THEN <<>>
            ELSE IF Known(existing \cup SetOf(F[i-1]), members[i])
                 THEN F[i-1]
                 ELSE Append(F[i-1], members[i])
    IN  F[Len(members)]

\* a baseline fetch whose result is dropped
BaselineDropped(task, members) == task.existing

\* lines 226-230: what the baseline fetch of a group adds to existing
Baseline(task, members) == task.existing \cup SetOf(members)

\* the task after the members of a fetch were handled: the next region, the
\* first poll, or sleep(60)
AfterFetch(task) ==
    IF task.group = "NEW_REGION_MEMBERS" /\ task.ri < Len(Regions(task))
    THEN ApiPost([task EXCEPT !.ri = @ + 1])
    ELSE IF task.phase = "baseline"
    THEN ApiPost([task EXCEPT !.phase = "poll", !.ri = 1, !.base = task.existing])
    ELSE [task EXCEPT !.pc = "sleep", !.wait = PollInterval, !.polls = @ + 1,
                      !.hdr = <<>>]

\* lines 221-222: the delegates that are not in the approving list
NotApproving(approving, members) ==
    LET F[i \in 0..Len(members)] ==
            IF i = 0 THEN <<>>
            ELSE IF members[i] \in SetOf(approving) THEN F[i-1]
                 ELSE Append(F[i-1], members[i])
    IN  F[Len(members)]

\* lines 202-222: the for loops of the one-shot branch call queue_tg for
\* every name, then the next region is fetched or the task returns
QueueAll(c, task, names) ==
    /\ Len(enqLog) + Len(names) <= MaxEnq
    /\ queue' = Enqueue(queue, enqLog, names)[1]
    /\ enqLog' = Enqueue(queue, enqLog, names)[2]
    /\ camps' = [camps EXCEPT ![c] =
          IF task.group = "ALL_REGION_MEMBERS" /\ task.ri < Len(Regions(task))
          THEN ApiPost([task EXCEPT !.queued = @ \o names, !.ri = @ + 1,
                                    !.fetched = @ \cup {task.ri}])
          ELSE EndCamp([task EXCEPT !.queued = @ \o names,
                                    !.fetched = @ \cup {task.ri}], "done")]

\* lines 214-220: what _mass_queue does with the list the lookup returned
Approving(c, task, list) ==
    IF task.group = "DELEGATES_APPROVING"
    THEN QueueAll(c, [task EXCEPT !.approving = <<list>>], list)
    ELSE /\ camps' = [camps EXCEPT ![c] =
               ApiPost([task EXCEPT !.approving = <<list>>,
                                    !.phase = "static", !.ri = 1])]
         /\ UNCHANGED <<queue, enqLog>>

\* lines 300-309: the answer of a chamber to the proposals query.  A found
\* proposal gives APPROVALS.string.split(':'), and the string of an element
\* without text is None, which has no split.
Lookup(c, answer) ==
    LET task == [camps[c] EXCEPT !.answers = Append(@, answer)]
    IN  IF answer.found
        THEN IF answer.approvals = <<>>
             THEN /\ camps' = [camps EXCEPT ![c] = EndCamp(task, "failed")]
                  /\ UNCHANGED <<queue, enqLog>>
             ELSE Approving(c, task, answer.approvals)
        ELSE IF task.council = 1
        THEN /\ camps' = [camps EXCEPT ![c] = ApiPost([task EXCEPT !.council = 2])]
             /\ UNCHANGED <<queue, enqLog>>
        ELSE Approving(c, task, <<>>)

\* lines 263, 273, 283, 292: the string of an element without text is None,
\* which has no split
NoText(members) == members = <<>>

\* the members of a response reach the caller of the fetch
Deliver(c, members) ==
    LET task == camps[c]
        first == IF task.ri \in task.fetched THEN task.atStart
                 ELSE task.atStart \cup SetOf(members)
    IN  IF task.phase = "approving"
        THEN Lookup(c, members)
        ELSE IF NoText(members)
        THEN /\ camps' = [camps EXCEPT ![c] = EndCamp(task, "failed")]
             /\ UNCHANGED <<queue, enqLog>>
        ELSE IF task.phase = "static"
        THEN IF task.group = "DELEGATES_NOT_APPROVING"
             THEN QueueAll(c, task, NotApproving(task.approving[1], members))
             ELSE QueueAll(c, task, members)
        ELSE IF task.phase = "baseline"
        THEN /\ camps' = [camps EXCEPT ![c] =
                   AfterFetch([task EXCEPT !.existing = Baseline(task, members),
                                           !.atStart = first,
                                           !.fetched = @ \cup {task.ri}])]
             /\ UNCHANGED <<queue, enqLog>>
        ELSE LET fresh == Fresh(task.existing, members) IN
             /\ Len(enqLog) + Len(fresh) <= MaxEnq
             /\ queue' = Enqueue(queue, enqLog, fresh)[1]
             /\ enqLog' = Enqueue(queue, enqLog, fresh)[2]
             /\ camps' = [camps EXCEPT ![c] =
                   AfterFetch([task EXCEPT
                       !.existing = @ \cup SetOf(fresh),
                       !.queued = @ \o fresh,
                       !.atStart = first,
                       !.fetched = @ \cup {task.ri}])]

\* the response to a post of _api_request_wait
api_response(c, head, members) ==
    /\ camps[c].pc = "fetch"
    /\ IF head.status = 429
       THEN /\ camps' = [camps EXCEPT ![c] =
                  [@ EXCEPT !.pc = "retry", !.wait = head.retry_after]]
            /\ UNCHANGED <<queue, enqLog>>
       ELSE IF Remaining(head) # 0
       THEN /\ camps' = [camps EXCEPT ![c] =
                  [@ EXCEPT !.pc = "slow", !.wait = Slowdown(head),
                            !.hdr = <<head>>]]
            /\ UNCHANGED <<queue, enqLog>>
       ELSE Deliver(c, members)
    /\ call' = NoCall
    /\ UNCHANGED <<client_key, user_agent, delay, sent, tg_task, queueing_tasks,
                   session, loops, pendingStarts, stopping, startLog, errored,
                   endLog, paced>>

\* the end of sleep(retry_after): the while loop of line 313 posts again
api_retry(c) ==
    /\ camps[c].pc = "retry"
    /\ camps' = [camps EXCEPT ![c] = ApiPost(@)]
    /\ call' = NoCall
    /\ UNCHANGED <<client_key, user_agent, delay, sent, queue, tg_task,
                   queueing_tasks, session, loops, pendingStarts, stopping,
                   enqLog, startLog, errored,
                   endLog, paced>>

\* the end of the sleep of line 322: "yield resp"
api_slow_wake(c, members) ==
    /\ camps[c].pc = "slow"
    /\ Deliver(c, members)
    /\ call' = NoCall
    /\ UNCHANGED <<client_key, user_agent, delay, sent, tg_task, queueing_tasks,
                   session, loops, pendingStarts, stopping, startLog, errored,
                   endLog, paced>>

\* the end of sleep(60): the next pass of the while loop of line 232
mass_queue_poll(c) ==
    /\ camps[c].pc = "sleep"
    /\ camps[c].polls < MaxPolls
    /\ camps' = [camps EXCEPT ![c] = ApiPost([@ EXCEPT !.ri = 1])]
    /\ call' = NoCall
    /\ UNCHANGED <<client_key, user_agent, delay, sent, queue, tg_task,
                   queueing_tasks, session, loops, pendingStarts, stopping,
                   enqLog, startLog, errored,
                   endLog, paced>>

(***************************************************************************)
(* The specification.                                                      *)
(***************************************************************************)
\* The responses of the directory: lists of distinct nations.
Members(names) ==
    {m \in UNION {[1..n -> names] : n \in 1..MaxMembers} :
        \A i, j \in DOMAIN m : i # j => m[i] # m[j]}

\* Whether the members of a response with these headers are handed over in
\* the step that receives it.
Direct(head) == head.status # 429 /\ Remaining(head) = 0

(***************************************************************************)
(* Spec: the client from construction on: configuration, manual queueing,  *)
(* start and stop, and the delivery of the queue by an endpoint that       *)
(* answers anything.                                                       *)
(***************************************************************************)
ManualNames == {NewProvi, Testlandia}

Next ==
    \/ \E kwargs \in Kwargs : Client_init(kwargs)
    \/ \E recipient \in ManualNames : queue_tg(recipient)
    \/ start
    \/ stop
    \/ stop_resume
    \/ \E t \in DOMAIN loops : process_queue(t)
    \/ \E t \in DOMAIN loops, resp \in SendResponses : send_tg_response(t, resp)
    \/ \E t \in DOMAIN loops : send_tg_retry(t)
    \/ \E t \in DOMAIN loops : process_queue_wake(t)

Spec == Init /\ [][Next]_vars

\* The state after Client(client_key=..., user_agent=...), as in
\* src/example.py line 27.
Configured ==
    /\ client_key = "key"
    /\ user_agent = "agent"
    /\ delay = DefaultDelay
    /\ sent = {}
    /\ queue = <<>>
    /\ tg_task = 0
    /\ queueing_tasks = <<>>
    /\ session = "none"
    /\ loops = <<>>
    /\ camps = <<>>
    /\ pendingStarts = 0
    /\ stopping = 0
    /\ call = Called("Client", <<>>, "none")
    /\ enqLog = <<>>
    /\ startLog = <<>>
    /\ errored = {}
    /\ endLog = <<>>
    /\ paced = TRUE

(***************************************************************************)
(* SpecMass: a configured client on which campaigns for new nations are    *)
(* started, and start and stop are called, at any time.  The directory     *)
(* reports one nation and the endpoint accepts every telegram.             *)
(***************************************************************************)
Plenty == [status |-> 200, retry_after |-> 0, remaining |-> 8, reset |-> 30]
Accepted == [status |-> 200, retry_after |-> 0, queued |-> TRUE, remaining |-> 8]
OneNation == {<<Testlandia>>}

NextMass ==
    \/ mass_telegram("NEW_FOUNDS", NoRegions, <<>>)
    \/ start
    \/ gathered_start
    \/ stop
    \/ stop_resume
    \/ \E t \in DOMAIN loops : process_queue(t)
    \/ \E t \in DOMAIN loops : send_tg_response(t, Accepted)
    \/ \E t \in DOMAIN loops : process_queue_wake(t)
    \/ \E c \in DOMAIN camps : mass_queue_begin(c)
    \/ \E c \in DOMAIN camps, m \in OneNation : api_response(c, Plenty, m)
    \/ \E c \in DOMAIN camps : mass_queue_poll(c)

SpecMass == Configured /\ [][NextMass]_vars

(***************************************************************************)
(* SpecPoll: a configured client with one campaign of a dynamic group and  *)
(* manual queueing beside it, against a directory that answers anything    *)
(* and an endpoint that accepts every telegram.                            *)
(***************************************************************************)
DynamicCalls ==
    {<<"NEW_WA_MEMBERS", NoRegions>>, <<"NEW_FOUNDS", NoRegions>>,
     <<"NEW_REGION_MEMBERS", OneRegionStr>>,
     <<"NEW_REGION_MEMBERS", RegionList(<<"region1", "region2">>)>>}

Reported == Members(Nations)
DirectHeaders == {h \in ApiHeaders : Direct(h)}
OtherHeaders == ApiHeaders \ DirectHeaders

NextPoll ==
    \/ \E a \in DynamicCalls : camps = <<>> /\ mass_telegram(a[1], a[2], <<>>)
    \/ queue_tg(Testlandia)
    \/ gathered_start
    \/ \E t \in DOMAIN loops : process_queue(t)
    \/ \E t \in DOMAIN loops : send_tg_response(t, Accepted)
    \/ \E t \in DOMAIN loops : process_queue_wake(t)
    \/ \E c \in DOMAIN camps : mass_queue_begin(c)
    \/ \E c \in DOMAIN camps, head \in OtherHeaders : api_response(c, head, <<>>)
    \/ \E c \in DOMAIN camps, head \in DirectHeaders, m \in Reported :
          api_response(c, head, m)
    \/ \E c \in DOMAIN camps : api_retry(c)
    \/ \E c \in DOMAIN camps, m \in Reported : api_slow_wake(c, m)
    \/ \E c \in DOMAIN camps : mass_queue_poll(c)

SpecPoll == Configured /\ [][NextPoll]_vars

(***************************************************************************)
(* SpecStatic: a configured client with one campaign of a one-shot group,  *)
(* valid or not, against a directory that answers anything, empty lists    *)
(* included, and an endpoint that accepts every telegram.                  *)
(***************************************************************************)
StaticCalls ==
    {<<"ALL_WA_MEMBERS", NoRegions, <<>>>>,
     <<"ALL_WA_DELEGATES", NoRegions, <<>>>>,
     <<"ALL_REGION_MEMBERS", NoRegions, <<>>>>,
     <<"ALL_REGION_MEMBERS", OneRegionStr, <<>>>>,
     <<"ALL_REGION_MEMBERS", RegionList(<<>>), <<>>>>,
     <<"ALL_REGION_MEMBERS", RegionList(<<"region1", "region2">>), <<>>>>,
     <<"NEW_REGION_MEMBERS", NoRegions, <<>>>>,
     <<"DELEGATES_APPROVING", NoRegions, <<>>>>,
     <<"DELEGATES_APPROVING", NoRegions, <<"proposal">>>>,
     <<"DELEGATES_NOT_APPROVING", NoRegions, <<>>>>,
     <<"DELEGATES_NOT_APPROVING", NoRegions, <<"proposal">>>>}

StaticNames == {NewProvi, Testlandia}
Lists == Members(StaticNames) \cup {<<>>}
Answers == {[found |-> FALSE, approvals |-> <<>>]}
           \cup [found : {TRUE}, approvals : Lists]

NextStatic ==
    \/ \E a \in StaticCalls : camps = <<>> /\ mass_telegram(a[1], a[2], a[3])
    \/ gathered_start
    \/ \E t \in DOMAIN loops : process_queue(t)
    \/ \E t \in DOMAIN loops : send_tg_response(t, Accepted)
    \/ \E t \in DOMAIN loops : process_queue_wake(t)
    \/ \E c \in DOMAIN camps : mass_queue_begin(c)
    \/ \E c \in DOMAIN camps, head \in OtherHeaders : api_response(c, head, <<>>)
    \/ \E c \in DOMAIN camps, head \in DirectHeaders, m \in Lists :
          camps[c].phase # "approving" /\ api_response(c, head, m)
    \/ \E c \in DOMAIN camps, head \in DirectHeaders, m \in Answers :
          camps[c].phase = "approving" /\ api_response(c, head, m)
    \/ \E c \in DOMAIN camps : api_retry(c)
    \/ \E c \in DOMAIN camps, m \in Lists :
          camps[c].phase # "approving" /\ api_slow_wake(c, m)
    \/ \E c \in DOMAIN camps, m \in Answers :
          camps[c].phase = "approving" /\ api_slow_wake(c, m)

SpecStatic == Configured /\ [][NextStatic]_vars

(***************************************************************************)
(* SpecCreds: the client from construction on, with calls that set the     *)
(* credentials (or not), start, and campaigns for new nations.             *)
(***************************************************************************)
CredKwargs == {k \in Kwargs : k.delay = <<>>}

NextCreds ==
    \/ \E kwargs \in CredKwargs : Client_init(kwargs)
    \/ mass_telegram("NEW_FOUNDS", NoRegions, <<>>)
    \/ start
    \/ gathered_start
    \/ \E t \in DOMAIN loops : process_queue(t)
    \/ \E t \in DOMAIN loops : send_tg_response(t, Accepted)
    \/ \E t \in DOMAIN loops : process_queue_wake(t)
    \/ \E c \in DOMAIN camps : mass_queue_begin(c)
    \/ \E c \in DOMAIN camps, m \in OneNation : api_response(c, Plenty, m)
    \/ \E c \in DOMAIN camps : mass_queue_poll(c)

SpecCreds == Init /\ [][NextCreds]_vars

(***************************************************************************)
(* SpecLive: a configured client that is started and never stopped, with   *)
(* manual queueing and one campaign for new nations.  The event loop runs  *)
(* every task that is ready and every sleep ends, and the endpoint and the *)
(* directory answer every request: the steps of the tasks are weakly fair. *)
(* The endpoint answers a request with at most Max429 429s.                *)
(***************************************************************************)
ManualRoom == MaxEnq - 1

LoopSteps ==
    \/ \E t \in DOMAIN loops : process_queue(t)
    \/ \E t \in DOMAIN loops, resp \in SendResponses : send_tg_response(t, resp)
    \/ \E t \in DOMAIN loops : send_tg_retry(t)
    \/ \E t \in DOMAIN loops : process_queue_wake(t)

CampSteps ==
    \/ \E c \in DOMAIN camps : mass_queue_begin(c)
    \/ \E c \in DOMAIN camps, m \in OneNation : api_response(c, Plenty, m)
    \/ \E c \in DOMAIN camps : mass_queue_poll(c)

NextLive ==
    \/ Len(enqLog) < ManualRoom /\ queue_tg(NewProvi)
    \/ camps = <<>> /\ mass_telegram("NEW_FOUNDS", NoRegions, <<>>)
    \/ start
    \/ gathered_start
    \/ LoopSteps
    \/ CampSteps

SpecLive ==
    /\ Configured
    /\ [][NextLive]_vars
    /\ WF_vars(LoopSteps)
    /\ WF_vars(CampSteps)

(***************************************************************************)
(* Properties.                                                             *)
(***************************************************************************)
LiveLoops == {t \in DOMAIN loops : Live(loops[t])}
LiveCamps == {c \in DOMAIN camps : Live(camps[c])}
Recipients(q) == [i \in DOMAIN q |-> q[i].recipient]
Reverse(q) == [i \in DOMAIN q |-> q[Len(q) + 1 - i]]
NoRepeat(q) == \A i, j \in DOMAIN q : i # j => q[i] # q[j]

\* C1: delivery attempts start in the order of the enqueues, whoever made
\* them (queue_tg calls or campaign tasks): the recipients whose send was
\* started are, in order, the first of the recipients enqueued.
FifoDelivery ==
    /\ Len(startLog) <= Len(enqLog)
    /\ startLog = SubSeq(enqLog, 1, Len(startLog))

\* Three requests, enqueued by a campaign and by hand, all started, not all
\* to the same recipient.
FifoWitness ==
    /\ Len(startLog) = 3
    /\ startLog[1] # startLog[3]
    /\ \E c \in DOMAIN camps :
          /\ camps[c].queued # <<>>
          /\ Len(camps[c].queued) < Len(enqLog)

\* C2: the delay is never below 30; a Client(delay=d) call with d < 30
\* raises ValueError and leaves the delay as it was, one with d >= 30 (30
\* itself is accepted) raises nothing and sets the delay to d.
DelayFloorKept ==
    /\ [](delay >= DelayFloor)
    /\ [][(call'.op = "Client" /\ call'.arg # <<>>) =>
            IF call'.arg[1] < DelayFloor
            THEN call'.err = "ValueError" /\ delay' = delay
            ELSE call'.err = "none" /\ delay' = call'.arg[1]]_vars

\* Client(delay=10) was rejected after Client(delay=30) had been accepted.
DelayFloorWitness ==
    /\ call = Called("Client", <<10>>, "ValueError")
    /\ delay = DelayFloor

\* C3: a dynamic campaign enqueues no identifier (as the directory reports
\* it) twice and none of its baseline, and its ExistingSet only grows: it
\* is the baseline and what the campaign enqueued.
DedupInCampaign ==
    /\ [](\A c \in DOMAIN camps :
            /\ NoRepeat(camps[c].queued)
            /\ SetOf(camps[c].queued) \cap camps[c].base = {}
            /\ camps[c].phase = "poll" =>
                  camps[c].existing = camps[c].base \cup SetOf(camps[c].queued))
    /\ [][\A c \in DOMAIN camps :
            camps[c].existing \subseteq camps'[c].existing]_vars

\* A campaign with a baseline made two passes of its loop and enqueued two
\* newcomers.
DedupWitness ==
    \E c \in DOMAIN camps :
        /\ camps[c].base # {}
        /\ camps[c].polls = 2
        /\ Len(camps[c].queued) = 2

CanonicalDedup ==
    /\ \A r \in sent : Canon(r) = r
    /\ \A c \in DOMAIN camps : \A i \in DOMAIN camps[c].queued :
          \A known \in camps[c].base
                       \cup {camps[c].queued[j] : j \in 1..(i - 1)} :
              Canon(known) # Canon(camps[c].queued[i])

ProactiveBackoff ==
    \A c \in DOMAIN camps :
        camps[c].pc = "slow" =>
            /\ camps[c].hdr[1].remaining \in 1..LowWater
            /\ camps[c].wait * camps[c].hdr[1].remaining = camps[c].hdr[1].reset

\* C8, as claimed: at most one _process_queue task is alive.
SingleScheduler == Cardinality(LiveLoops) <= 1

\* C9: a stop() call leaves the queue, the ledger and the configuration as
\* they are and dequeues nothing; while not running it changes nothing at
\* all; while running it ends the loop, and when it returns the handle is
\* reset.  The next start() then creates a new loop, and the queue is at any
\* time the enqueued requests not yet started, oldest at the right end.
StopFrame ==
    /\ [](Recipients(queue) =
            Reverse(SubSeq(enqLog, Len(startLog) + 1, Len(enqLog))))
    /\ [][call'.op = "stop" =>
            /\ UNCHANGED <<queue, sent, client_key, user_agent, delay, enqLog,
                           startLog>>
            /\ (tg_task = 0 /\ stopping' = stopping) =>
                  UNCHANGED <<tg_task, queueing_tasks, session, loops, camps>>
            /\ (tg_task # 0 /\ stopping' >= stopping) =>
                  ~Live(loops'[tg_task])
            /\ call'.err = "none" => tg_task' = 0]_vars
    /\ [][(tg_task = 0 /\ tg_task' # 0) =>
            /\ tg_task' = Len(loops) + 1
            /\ loops' = Append(loops, NewLoop)
            /\ queue' = queue]_vars

\* After a stop() with requests left in the queue, a second loop went on
\* with them.
StopWitness ==
    /\ Len(loops) = 2
    /\ loops[1].pc = "cancelled"
    /\ loops[2].pc = "delay"
    /\ Len(startLog) = 2
    /\ queue # <<>>
    /\ sent # {}

\* C10, as claimed: when a stop() call has returned, no campaign task is
\* alive.
StopEndsCampaigns ==
    (call.op = "stop" /\ call.err = "none") => LiveCamps = {}

\* C11, as claimed: while the client key or the user agent is unset there is
\* no _process_queue task, no campaign task has issued a fetch, and once
\* the start() of a mass_telegram call has raised its AttributeError no
\* campaign task is alive.
CredentialFailFast ==
    (client_key = None \/ user_agent = None) =>
        /\ LiveLoops = {}
        /\ \A c \in DOMAIN camps :
              camps[c].pc \notin {"fetch", "retry", "slow", "sleep"}
        /\ call = Called("mass_telegram", <<>>, "AttributeError") =>
              LiveCamps = {}

\* A campaign of a region-scoped group without a region, or of a
\* proposal-scoped group without a proposal id.
NoScope(task) ==
    \/ /\ task.group \in {"ALL_REGION_MEMBERS", "NEW_REGION_MEMBERS"}
       /\ \/ task.regions.type = "none"
          \/ task.regions.type = "list" /\ task.regions.items = <<>>
    \/ /\ task.group \in {"DELEGATES_APPROVING", "DELEGATES_NOT_APPROVING"}
       /\ task.proposal = <<>>

\* C12: a campaign of a region-scoped group without a region, or of a
\* proposal-scoped group without a proposal id, ends in its first run with
\* the error, having issued no fetch and enqueued nothing; a campaign given
\* one region as a str fetches for the list of that one region.
ValidationFailFast ==
    /\ [](\A c \in DOMAIN camps :
            /\ NoScope(camps[c]) =>
                  /\ camps[c].pc \in {"new", "failed"}
                  /\ camps[c].phase = "none"
                  /\ camps[c].fetched = {}
                  /\ camps[c].queued = <<>>
            /\ (camps[c].regions.type = "str" /\ camps[c].pc # "new") =>
                  /\ camps[c].phase # "none"
                  /\ Regions(camps[c]) = <<camps[c].regions.items>>
                  /\ camps[c].ri = 1
                  /\ camps[c].fetched \subseteq {1})
    /\ [][\A c \in DOMAIN camps :
            (NoScope(camps[c]) /\ camps'[c] # camps[c]) =>
                /\ camps'[c].pc = "failed"
                /\ UNCHANGED <<queue, enqLog>>]_vars

\* A campaign for all members of no region has failed, while the
\* _process_queue task that mass_telegram started is there.
ValidationWitness ==
    /\ tg_task # 0
    /\ \E c \in DOMAIN camps :
          /\ camps[c].group = "ALL_REGION_MEMBERS"
          /\ camps[c].regions = RegionList(<<>>)
          /\ camps[c].pc = "failed"

\* C13, as claimed: the lookup asks chamber 1 and then, only if the proposal
\* was not found there, chamber 2, and never a third time; a proposal found
\* in chamber 1 makes it return that chamber's list after one query, one
\* found in chamber 2 only that chamber's list after two, and one found in
\* neither the empty list after two.
ProposalFallback ==
    \A c \in DOMAIN camps :
        LET a == camps[c].answers IN
        /\ Len(a) <= 2
        /\ (Len(a) = 1 /\ a[1].found) =>
              camps[c].approving = <<a[1].approvals>>
        /\ (Len(a) = 1 /\ ~a[1].found) =>
              /\ camps[c].approving = <<>>
              /\ camps[c].council = 2
        /\ Len(a) = 2 =>
              /\ ~a[1].found
              /\ camps[c].approving =
                    <<IF a[2].found THEN a[2].approvals ELSE <<>>>>

\* C14: a response to a send that is not a 429 and lacks the marker ends
\* the attempt: the request is not posted again, the ledger and the queue
\* stay as they are and the loop goes into sleep(self.delay), from which it
\* returns to the queue; the ledger only grows, and only by the canonical
\* recipient of a send that was answered with the marker.
PerItemFailure ==
    /\ [][sent \subseteq sent']_vars
    /\ [][sent' # sent =>
            \E t \in DOMAIN loops :
                /\ loops[t].pc = "post"
                /\ loops'[t].last = "queued"
                /\ sent' = sent \cup {Canon(loops[t].cur[1].recipient)}]_vars
    /\ [][\A t \in DOMAIN loops :
            /\ (loops[t].pc = "post" /\ loops'[t].last = "error"
                    /\ endLog' # endLog) =>
                  /\ loops'[t].pc = "delay"
                  /\ loops'[t].wait = delay
                  /\ loops'[t].cur = <<>>
                  /\ endLog' = Append(endLog, loops[t].cur[1].recipient)
                  /\ errored' = errored \cup {loops[t].cur[1].recipient}
                  /\ UNCHANGED <<sent, queue, startLog, tg_task>>
            /\ loops[t].pc = "delay" =>
                  loops'[t].pc \in {"delay", "idle", "cancelled"}]_vars

\* One loop: its first send was answered with an error and is not in the
\* ledger, its second was accepted.
PerItemWitness ==
    /\ Len(loops) = 1
    /\ Len(endLog) = 2
    /\ endLog[1] \in errored
    /\ Canon(endLog[1]) \notin sent
    /\ Canon(endLog[2]) \in sent

\* C15, as claimed: whenever a send is started after another one has ended,
\* a sleep(self.delay) was completed in between.
Pacing ==
    [][(Len(startLog') > Len(startLog) /\ endLog # <<>>) => paced]_vars

\* C16, as claimed: the step in which a send is answered, not with a 429,
\* with a RateLimit-Remaining of 7 or less puts the loop into the sleep of
\* RateLimit-Reset / remaining before anything else, as _api_request_wait
\* does with a fetch.
UniformGovernor ==
    [][\A t \in DOMAIN loops :
        (/\ loops[t].pc = "post"
         /\ loops'[t].last \in {"queued", "error"}
         /\ endLog' # endLog
         /\ loops'[t].quota[1] <= LowWater) => loops'[t].pc = "slow"]_vars

\* The sends that were started and neither ended nor are held by a live
\* _process_queue task.
Dropped ==
    Len(startLog) - Len(endLog)
        - Cardinality({t \in LiveLoops : loops[t].cur # <<>>})

\* C17, as claimed: every request enqueued is in the queue, or held by the
\* loop that dequeued it, or has had its outcome (accepted or error), and
\* none is dequeued twice.
ExactlyOnce ==
    /\ Len(queue) + Len(startLog) = Len(enqLog)
    /\ Dropped = 0

\* C18: with the loop created and never stopped, every request enqueued,
\* by queue_tg or by a campaign, is eventually popped and its send started;
\* and the campaign goes on through the passes of its loop whatever the
\* _process_queue task does.
EventualDelivery ==
    /\ \A n \in 1..MaxEnq :
          (Len(enqLog) >= n /\ tg_task # 0) ~> (Len(startLog) >= n)
    /\ \A c \in 1..MaxCamps :
          (c \in DOMAIN camps) ~>
              (c \in DOMAIN camps /\ camps[c].polls = MaxPolls)

\* Requests of queue_tg and of the campaign were enqueued and all started,
\* and the campaign has made a second pass.
EventualWitness ==
    /\ Len(enqLog) > 1
    /\ Len(startLog) = Len(enqLog)
    /\ \E c \in DOMAIN camps :
          /\ camps[c].queued # <<>>
          /\ Len(camps[c].queued) < Len(enqLog)
          /\ camps[c].polls > 1

\* C19, as claimed: a campaign of a one-shot group makes no pass of the
\* polling loop and never sleeps, fetches each of its lists at most once,
\* and its membership fetches never end it with an error, whatever they
\* return, an empty result included.
StaticOnce ==
    \A c \in DOMAIN camps :
        (IsStatic(camps[c].group) /\ ~NoScope(camps[c])) =>
            /\ camps[c].polls = 0
            /\ camps[c].pc # "sleep"
            /\ camps[c].existing = {}
            /\ camps[c].phase = "static" => camps[c].pc # "failed"

\* C20, as claimed: a Client(...) call that raises ValueError for its delay
\* leaves the client key, the user agent and the delay as they were.
RejectedConfigAtomic ==
    [][(call'.op = "Client" /\ call'.err = "ValueError") =>
          UNCHANGED <<client_key, user_agent, delay>>]_vars

====
